---------------------------- MODULE Spec2Model ----------------------------
(***************************************************************************)
(* Model of the LEDMatrix_TickerBoard repository:                          *)
(*   - convert_bdf_to_bmf.py : the BDF -> BMF bitmap-font compiler, a      *)
(*     straight-line script modelled as a program counter walking its      *)
(*     numbered stages (1 read .. 8 save);                                 *)
(*   - stock_ticker_board_nihongo.py : StockFetcher, the TTL price cache.  *)
(***************************************************************************)
EXTENDS Integers, Sequences, FiniteSets, TLC

(***************************************************************************)
(* Bounds of the model.                                                    *)
(***************************************************************************)
MaxGlyphs == 3      \* longest glyph sequence of an enumerated source font
MaxRuns == 2        \* how often the converter is run on the same source
MaxCount == 40      \* largest glyph count of the layout-only specification
MaxTicks == 4       \* how often the clock advances in the fetcher model

(***************************************************************************)
(* Program constants.                                                      *)
(***************************************************************************)
MinCodepoint == 32          \* 0x20, the filter threshold
CACHE_TTL == 160            \* Config.CACHE_TTL

(***************************************************************************)
(* Glyphs as bdflib hands them out.  codepoint is an Optional: <<>> is     *)
(* None, <<c>> is the integer c.  data is the list of row masks.  The      *)
(* reader takes exactly bbH bitmap lines per glyph, and shifts each line's *)
(* padding away, so bbH = len(data) and every mask is below 2^bbW.         *)
(***************************************************************************)
Glyph(cp, w, d) == [codepoint |-> cp, bbX |-> 0, bbY |-> 0, bbW |-> w,
                    bbH |-> Len(d), data |-> d]

get_bounding_box(g) == <<g.bbX, g.bbY, g.bbW, g.bbH>>

GlyphPool ==
  { Glyph(<<>>,   2, <<1, 2>>),       \* no ENCODING: codepoint None
    Glyph(<<31>>, 2, <<3>>),          \* control character, below 0x20
    Glyph(<<32>>, 1, <<1>>),          \* exactly 0x20
    Glyph(<<66>>, 2, <<1, 2, 3>>),    \* 0x42 of scenario A
    Glyph(<<65>>, 3, <<5, 7>>),       \* 0x41 of scenario A
    Glyph(<<67>>, 0, <<0>>),          \* BBX width 0
    Glyph(<<68>>, 1, <<>>) }          \* BBX height 0, no bitmap lines

RECURSIVE SeqsUpTo(_, _)
SeqsUpTo(S, n) ==
  IF n = 0 THEN { <<>> }
  ELSE LET shorter == SeqsUpTo(S, n - 1)
       IN  shorter \cup { Append(s, x) : s \in shorter, x \in S }

\* The file misaki_gothic.bdf: absent, unparsable, or a parsable font.
Sources ==
  { [kind |-> "absent", glyphs |-> <<>>], [kind |-> "malformed", glyphs |-> <<>>] }
  \cup { [kind |-> "bdf", glyphs |-> s] : s \in SeqsUpTo(GlyphPool, MaxGlyphs) }

\* The file misaki_gothic.bmf: whether it exists and the chunks it holds.
NoFile == [exists |-> FALSE, content |-> <<>>]
OldFile == [exists |-> TRUE, content |-> << "previous" >>]

VARIABLES
  pc,          \* stage of the converter script
  err,         \* exception that ended the run, "none" while it runs
  runs,        \* number of runs started
  SRC,         \* the source file
  outFile,     \* the destination file
  outBefore,   \* history: the destination file when the run started
  prevOut,     \* history: the destination as the last completed run left it
  bdf,         \* bdf.glyphs
  fi,          \* position of the filter loop in bdf.glyphs
  glyphs, cell_w, cell_h, count, cols, rows, sheet_w, sheet_h,
  sheet,       \* pixel map of the sprite sheet
  idx,         \* position of the rasterizer loop in glyphs
  put,         \* history: putpixel coordinates of the glyph pasted last
  placed,      \* history: <<cx, cy, codepoint>> of every paste, in order
  index, font,
  cache,       \* StockFetcher._cache : code -> <<price, ts>>
  now,         \* time.time()
  ticks,       \* number of clock advances
  call         \* history: the last fetch_price call

convVars == <<pc, err, runs, SRC, outFile, outBefore, prevOut, bdf, fi, glyphs,
              cell_w, cell_h, count, cols, rows, sheet_w, sheet_h, sheet, idx,
              put, placed, index, font>>
fetchVars == <<cache, now, ticks, call>>
vars == <<convVars, fetchVars>>

(***************************************************************************)
(* Pure helpers of the converter.                                          *)
(***************************************************************************)
RECURSIVE Pow2(_)
Pow2(k) == IF k <= 0 THEN 1 ELSE 2 * Pow2(k - 1)

\* (row_mask >> k) & 1
Bit(mask, k) == (mask \div Pow2(k)) % 2

Max(S) == CHOOSE m \in S : \A x \in S : x <= m

\* mutant: the width test is forgotten
KeepGlyphNoWidth(g) ==
  LET cp == g.codepoint
      bb == get_bounding_box(g)
  IN  /\ ~(cp = <<>> \/ cp[1] < MinCodepoint)
      /\ bb[4] > 0

\* cp is None or cp < 0x20 -> continue; then w > 0 and h > 0 -> append
KeepGlyph(g) ==
  LET cp == g.codepoint
      bb == get_bounding_box(g)
  IN  /\ ~(cp = <<>> \/ cp[1] < MinCodepoint)
      /\ bb[3] > 0 /\ bb[4] > 0

\* max(g.get_bounding_box()[2] for g in glyphs)
CellWidth(gs) == Max({ get_bounding_box(gs[i])[3] : i \in 1..Len(gs) })

\* mutant: the height is taken from the widest glyph, not maximised on its own
CellHeightOfWidest(gs) ==
  Len((CHOOSE g \in { gs[i] : i \in 1..Len(gs) } :
         get_bounding_box(g)[3] = CellWidth(gs)).data)

\* max(len(g.data) for g in glyphs)
CellHeight(gs) == Max({ Len(gs[i].data) : i \in 1..Len(gs) })

\* math.sqrt followed by math.ceil, on the exactly representable counts
RECURSIVE CeilSqrtFrom(_, _)
CeilSqrtFrom(n, c) == IF c * c >= n THEN c ELSE CeilSqrtFrom(n, c + 1)

Cols(n) == CeilSqrtFrom(n, 0)

\* mutant: a square grid
RowsSquare(n, c) == c

\* int(math.ceil(count / cols))
Rows(n, c) == IF n % c = 0 THEN n \div c ELSE (n \div c) + 1

\* Image.new("1", (w, h)): every pixel 0
NewImage(w, h) == [p \in (0..(w - 1)) \X (0..(h - 1)) |-> 0]

\* mutant: the vertical flip is left out
PutPixelsNoFlip(g, ch) ==
  LET w == get_bounding_box(g)[3]
  IN  { q \in (0..(w - 1)) \X (0..(Len(g.data) - 1)) :
          Bit(g.data[q[2] + 1], w - 1 - q[1]) = 1 }

\* the coordinates char_img.putpixel is called with for glyph g
PutPixels(g, ch) ==
  LET w == get_bounding_box(g)[3]
  IN  { <<x, ch - 1 - y>> : <<x, y>> \in
          { q \in (0..(w - 1)) \X (0..(Len(g.data) - 1)) :
              Bit(g.data[q[2] + 1], w - 1 - q[1]) = 1 } }

\* char_img after the two loops
CharImg(g, cw, ch) ==
  [p \in DOMAIN NewImage(cw, ch) |-> IF p \in PutPixels(g, ch) THEN 1 ELSE 0]

\* cell origin of the glyph at position i (0-based)
CellX(i, c, cw) == (i % c) * cw
\* mutant: the grid row is taken with % instead of //
CellYMod(i, c, ch) == (i % c) * ch

CellY(i, c, ch) == (i \div c) * ch

\* sheet.paste(char_img, (cx, cy)): overwrite, clipped to the sheet
Paste(sh, img, cx, cy) ==
  [p \in DOMAIN sh |->
     IF <<p[1] - cx, p[2] - cy>> \in DOMAIN img
     THEN img[<<p[1] - cx, p[2] - cy>>] ELSE sh[p]]

\* mutant: the index is built back to front
BuildIndexReversed(gs) == [i \in 1..Len(gs) |-> gs[Len(gs) + 1 - i].codepoint[1]]

\* [g.codepoint for g in glyphs]
BuildIndex(gs) == [i \in 1..Len(gs) |-> gs[i].codepoint[1]]

\* load_sprite_table(sheet, index=, xwidth=, glyph_size=, cell_size=)
LoadSpriteTable(sh, w, h, ix, cw, ch) ==
  [sheet_size |-> <<w, h>>, pixels |-> sh, index |-> ix, xwidth |-> cw,
   glyph_size |-> <<cw, ch>>, cell_size |-> <<cw, ch>>]

\* font.save opens the destination "wb": the file is created or truncated,
\* then the font is written into it.
Truncated(f) == [exists |-> TRUE, content |-> <<>>]
\* mutant: the destination is opened for appending
WrittenAppend(f, ft) == [exists |-> TRUE, content |-> f.content \o << ft >>]

Written(f, ft) == [exists |-> TRUE, content |-> Truncated(f).content \o << ft >>]

(***************************************************************************)
(* The converter script.                                                   *)
(***************************************************************************)
Fresh ==
  /\ pc = "start" /\ err = "none"
  /\ bdf = <<>> /\ fi = 0 /\ glyphs = <<>>
  /\ cell_w = 0 /\ cell_h = 0 /\ count = 0 /\ cols = 0 /\ rows = 0
  /\ sheet_w = 0 /\ sheet_h = 0 /\ sheet = NewImage(0, 0) /\ idx = 0
  /\ put = {} /\ placed = <<>> /\ index = <<>> /\ font = <<>>

NoCall == [code |-> "", ret |-> <<>>, queried |-> FALSE, failed |-> FALSE]

FetchIdle == cache = <<>> /\ now = 0 /\ ticks = 0 /\ call = NoCall

Init ==
  /\ Fresh
  /\ runs = 1
  /\ SRC \in Sources
  /\ outFile \in { NoFile, OldFile }
  /\ outBefore = outFile
  /\ prevOut = NoFile
  /\ FetchIdle

Raise(e) == pc' = "error" /\ err' = e

\* lines 17-19: SRC.exists()
CheckSource ==
  /\ pc = "start"
  /\ IF SRC.kind = "absent" THEN Raise("FileNotFoundError")
     ELSE pc' = "read" /\ err' = err
  /\ UNCHANGED <<runs, SRC, outFile, outBefore, prevOut, bdf, fi, glyphs,
                 cell_w, cell_h, count, cols, rows, sheet_w, sheet_h, sheet,
                 idx, put, placed, index, font, fetchVars>>

\* lines 21-25: reader.read_bdf(fp); glyphs = []
ReadBdf ==
  /\ pc = "read"
  /\ IF SRC.kind = "malformed"
     THEN Raise("ParseError") /\ UNCHANGED <<bdf, fi, glyphs>>
     ELSE /\ pc' = "filter" /\ err' = err
          /\ bdf' = SRC.glyphs /\ fi' = 0 /\ glyphs' = <<>>
  /\ UNCHANGED <<runs, SRC, outFile, outBefore, prevOut,
                 cell_w, cell_h, count, cols, rows, sheet_w, sheet_h, sheet,
                 idx, put, placed, index, font, fetchVars>>

\* lines 26-32: one iteration of the filter loop, or its end
FilterStep ==
  /\ pc = "filter"
  /\ IF fi < Len(bdf)
     THEN /\ glyphs' = IF KeepGlyph(bdf[fi + 1])
                       THEN Append(glyphs, bdf[fi + 1]) ELSE glyphs
          /\ fi' = fi + 1
          /\ pc' = pc
     ELSE pc' = "check" /\ UNCHANGED <<fi, glyphs>>
  /\ UNCHANGED <<err, runs, SRC, outFile, outBefore, prevOut, bdf,
                 cell_w, cell_h, count, cols, rows, sheet_w, sheet_h, sheet,
                 idx, put, placed, index, font, fetchVars>>

\* mutant: the emptiness check is missing
CheckEmptyMissing ==
  /\ pc = "check"
  /\ pc' = "size"
  /\ UNCHANGED <<err, runs, SRC, outFile, outBefore, prevOut, bdf, fi, glyphs,
                 cell_w, cell_h, count, cols, rows, sheet_w, sheet_h, sheet,
                 idx, put, placed, index, font, fetchVars>>

\* lines 34-35: if not glyphs: raise RuntimeError
CheckEmpty ==
  /\ pc = "check"
  /\ IF glyphs = <<>> THEN Raise("RuntimeError")
     ELSE pc' = "size" /\ err' = err
  /\ UNCHANGED <<runs, SRC, outFile, outBefore, prevOut, bdf, fi, glyphs,
                 cell_w, cell_h, count, cols, rows, sheet_w, sheet_h, sheet,
                 idx, put, placed, index, font, fetchVars>>

\* lines 38-39: max() of an empty sequence raises ValueError
CellSizer ==
  /\ pc = "size"
  /\ IF glyphs = <<>>
     THEN Raise("ValueError") /\ UNCHANGED <<cell_w, cell_h>>
     ELSE /\ cell_w' = CellWidth(glyphs)
          /\ cell_h' = CellHeight(glyphs)
          /\ pc' = "layout" /\ err' = err
  /\ UNCHANGED <<runs, SRC, outFile, outBefore, prevOut, bdf, fi, glyphs,
                 count, cols, rows, sheet_w, sheet_h, sheet,
                 idx, put, placed, index, font, fetchVars>>

\* lines 42-46
SheetLayout ==
  /\ pc = "layout"
  /\ count' = Len(glyphs)
  /\ cols' = Cols(count')
  /\ rows' = Rows(count', cols')
  /\ sheet_w' = cols' * cell_w
  /\ sheet_h' = rows' * cell_h
  /\ pc' = "raster_new"
  /\ UNCHANGED <<err, runs, SRC, outFile, outBefore, prevOut, bdf, fi, glyphs,
                 cell_w, cell_h, sheet, idx, put, placed, index, font,
                 fetchVars>>

\* line 49: sheet = Image.new("1", (sheet_w, sheet_h))
NewSheet ==
  /\ pc = "raster_new"
  /\ sheet' = NewImage(sheet_w, sheet_h)
  /\ idx' = 0
  /\ pc' = "raster"
  /\ UNCHANGED <<err, runs, SRC, outFile, outBefore, prevOut, bdf, fi, glyphs,
                 cell_w, cell_h, count, cols, rows, sheet_w, sheet_h,
                 put, placed, index, font, fetchVars>>

\* lines 50-60: one iteration of the rasterizer loop, or its end; putpixel
\* outside char_img raises IndexError
RasterStep ==
  /\ pc = "raster"
  /\ IF idx < Len(glyphs)
     THEN LET g == glyphs[idx + 1]
              cx == CellX(idx, cols, cell_w)
              cy == CellY(idx, cols, cell_h)
          IN  IF PutPixels(g, cell_h) \subseteq DOMAIN NewImage(cell_w, cell_h)
              THEN /\ sheet' = Paste(sheet, CharImg(g, cell_w, cell_h), cx, cy)
                   /\ put' = PutPixels(g, cell_h)
                   /\ placed' = Append(placed, <<cx, cy, g.codepoint[1]>>)
                   /\ idx' = idx + 1
                   /\ pc' = pc /\ err' = err
              ELSE Raise("IndexError") /\ UNCHANGED <<sheet, put, placed, idx>>
     ELSE pc' = "index" /\ UNCHANGED <<err, sheet, put, placed, idx>>
  /\ UNCHANGED <<runs, SRC, outFile, outBefore, prevOut, bdf, fi, glyphs,
                 cell_w, cell_h, count, cols, rows, sheet_w, sheet_h,
                 index, font, fetchVars>>

\* line 63
IndexBuilder ==
  /\ pc = "index"
  /\ index' = BuildIndex(glyphs)
  /\ pc' = "load"
  /\ UNCHANGED <<err, runs, SRC, outFile, outBefore, prevOut, bdf, fi, glyphs,
                 cell_w, cell_h, count, cols, rows, sheet_w, sheet_h, sheet,
                 idx, put, placed, font, fetchVars>>

\* lines 66-72
LoadFont ==
  /\ pc = "load"
  /\ font' = LoadSpriteTable(sheet, sheet_w, sheet_h, index, cell_w, cell_h)
  /\ pc' = "save"
  /\ UNCHANGED <<err, runs, SRC, outFile, outBefore, prevOut, bdf, fi, glyphs,
                 cell_w, cell_h, count, cols, rows, sheet_w, sheet_h, sheet,
                 idx, put, placed, index, fetchVars>>

\* lines 75-76: font.save(str(out)).  The open can fail (destination left as
\* it was) and the write can fail after the open truncated the file, leaving
\* it empty or holding a prefix of the font.
SaveOutcomes == { "ok", "open_fails", "write_fails_empty", "write_fails_partial" }

Save ==
  /\ pc = "save"
  /\ \E o \in SaveOutcomes :
       IF o = "ok"
       THEN /\ outFile' = Written(outFile, font)
            /\ pc' = "done" /\ err' = err
       ELSE /\ outFile' = IF o = "open_fails" THEN outFile
                          ELSE IF o = "write_fails_empty" THEN Truncated(outFile)
                          ELSE [exists |-> TRUE, content |-> << "partial" >>]
            /\ Raise("OSError")
  /\ UNCHANGED <<runs, SRC, outBefore, prevOut, bdf, fi, glyphs,
                 cell_w, cell_h, count, cols, rows, sheet_w, sheet_h, sheet,
                 idx, put, placed, index, font, fetchVars>>

\* the script is started again on the unchanged source; the new process
\* starts with fresh memory and the file system as the last run left it
Rerun ==
  /\ pc \in { "done", "error" }
  /\ runs < MaxRuns
  /\ runs' = runs + 1
  /\ outBefore' = outFile
  /\ prevOut' = IF pc = "done" THEN outFile ELSE prevOut
  /\ pc' = "start" /\ err' = "none"
  /\ bdf' = <<>> /\ fi' = 0 /\ glyphs' = <<>>
  /\ cell_w' = 0 /\ cell_h' = 0 /\ count' = 0 /\ cols' = 0 /\ rows' = 0
  /\ sheet_w' = 0 /\ sheet_h' = 0 /\ sheet' = NewImage(0, 0) /\ idx' = 0
  /\ put' = {} /\ placed' = <<>> /\ index' = <<>> /\ font' = <<>>
  /\ UNCHANGED <<SRC, outFile, fetchVars>>

Next ==
  \/ CheckSource \/ ReadBdf \/ FilterStep \/ CheckEmpty \/ CellSizer
  \/ SheetLayout \/ NewSheet \/ RasterStep \/ IndexBuilder \/ LoadFont
  \/ Save \/ Rerun

Spec == Init /\ [][Next]_vars

(***************************************************************************)
(* The layout stages on larger glyph counts: the script stands before its  *)
(* stage 3 with a filtered list of n copies of one retained glyph.         *)
(***************************************************************************)
Copies(g, n) == [i \in 1..n |-> g]

InitLayout ==
  /\ \E n \in 1..MaxCount : \E g \in { x \in GlyphPool : KeepGlyph(x) } :
       /\ SRC = [kind |-> "bdf", glyphs |-> Copies(g, n)]
       /\ bdf = Copies(g, n)
       /\ glyphs = Copies(g, n)
       /\ fi = n
  /\ pc = "size" /\ err = "none" /\ runs = 1
  /\ outFile = NoFile /\ outBefore = NoFile /\ prevOut = NoFile
  /\ cell_w = 0 /\ cell_h = 0 /\ count = 0 /\ cols = 0 /\ rows = 0
  /\ sheet_w = 0 /\ sheet_h = 0 /\ sheet = NewImage(0, 0) /\ idx = 0
  /\ put = {} /\ placed = <<>> /\ index = <<>> /\ font = <<>>
  /\ FetchIdle

NextLayout == CellSizer \/ SheetLayout

SpecLayout == InitLayout /\ [][NextLayout]_vars

(***************************************************************************)
(* StockFetcher.  A price is an Optional: <<>> is None.  One fetch_price   *)
(* call is one step; the backend's answer to the call is its input.        *)
(***************************************************************************)
Codes == { "AAPL", "7203.T" }
Prices == { 100, 200 }

\* what yf.Ticker(code).info and .history() answer during one call
BackendAnswers ==
  { [info_raises |-> FALSE, market |-> << p >>, hist_raises |-> FALSE, close |-> << p >>]
      : p \in Prices }
  \cup { [info_raises |-> FALSE, market |-> <<>>, hist_raises |-> FALSE, close |-> << p >>]
      : p \in Prices }
  \cup { [info_raises |-> TRUE, market |-> <<>>, hist_raises |-> FALSE, close |-> <<>>],
         [info_raises |-> FALSE, market |-> <<>>, hist_raises |-> TRUE, close |-> <<>>] }

\* lines 83-91: the try block; TRUE when the except branch is taken
QueryFails(a) == a.info_raises \/ (a.market = <<>> /\ a.hist_raises)

QueryPrice(a) == IF a.market # <<>> THEN a.market ELSE a.close

\* self._cache.get(code, (None, 0))[0]
CachedPrice(c, code) == IF code \in DOMAIN c THEN c[code][1] ELSE <<>>

\* mutant: an entry exactly ttl seconds old still counts as fresh
CacheHitInclusive(c, code, t, ttl) == code \in DOMAIN c /\ t - c[code][2] <= ttl

\* line 79-81: code in self._cache and now - ts < self.ttl
CacheHit(c, code, t, ttl) == code \in DOMAIN c /\ t - c[code][2] < ttl

\* self._cache[code] = (price, now)
Store(c, code, price, t) ==
  [k \in DOMAIN c \cup { code } |-> IF k = code THEN <<price, t>> ELSE c[k]]

InitFetch ==
  /\ Fresh /\ runs = 1 /\ SRC = [kind |-> "absent", glyphs |-> <<>>]
  /\ outFile = NoFile /\ outBefore = NoFile /\ prevOut = NoFile
  /\ FetchIdle

\* lines 77-93
fetch_price ==
  \E code \in Codes : \E a \in BackendAnswers :
    /\ IF CacheHit(cache, code, now, CACHE_TTL)
       THEN /\ call' = [code |-> code, ret |-> cache[code][1],
                        queried |-> FALSE, failed |-> FALSE]
            /\ cache' = cache
       ELSE LET price == IF QueryFails(a) THEN CachedPrice(cache, code)
                         ELSE QueryPrice(a)
            IN  /\ cache' = Store(cache, code, price, now)
                /\ call' = [code |-> code, ret |-> price,
                            queried |-> TRUE, failed |-> QueryFails(a)]
    /\ UNCHANGED <<now, ticks, convVars>>

\* the wall clock advances between calls
Tick ==
  /\ ticks < MaxTicks
  /\ ticks' = ticks + 1
  /\ \E d \in { CACHE_TTL \div 2, CACHE_TTL } : now' = now + d
  /\ UNCHANGED <<cache, call, convVars>>

NextFetch == fetch_price \/ Tick

SpecFetch == InitFetch /\ [][NextFetch]_vars

(***************************************************************************)
(* Properties.                                                             *)
(***************************************************************************)
\* the run is past its rasterization stage
AfterRaster ==
  pc \in { "index", "load", "save", "done" } \/ (pc = "error" /\ err = "OSError")

\* the pixels of the cell of the glyph at position i (0-based)
CellRect(i) ==
  (((i % cols) * cell_w)..((i % cols) * cell_w + cell_w - 1))
    \X (((i \div cols) * cell_h)..((i \div cols) * cell_h + cell_h - 1))

\* C1: on every error path of a run (source absent, parse failure, no glyph
\* left by the filter, failure while writing) the destination file is as it
\* was when the run started.
C1_ErrorLeavesDestination == pc = "error" => outFile = outBefore

\* C2: the filter keeps g iff its codepoint is present and >= 0x20, its
\* bounding-box width is > 0 and its rows are non-empty; what it has kept so
\* far is, in encounter order, exactly the glyphs of the consumed prefix of
\* the source that satisfy this, and the loop consumes the whole source.
C2_Retained(g) ==
  /\ g.codepoint # <<>> /\ g.codepoint[1] >= 32
  /\ g.bbW > 0 /\ Len(g.data) > 0

C3_Rasterized ==
  AfterRaster =>
    \A i \in 0..(Len(glyphs) - 1) :
      LET g == glyphs[i + 1]
          w == g.bbW
          ox == (i % cols) * cell_w
          oy == (i \div cols) * cell_h
      IN  \A a \in 0..(cell_w - 1) : \A b \in 0..(cell_h - 1) :
            sheet[<<ox + a, oy + b>>] =
              IF \E y \in 0..(Len(g.data) - 1) : \E x \in 0..(w - 1) :
                   /\ (g.data[y + 1] \div Pow2(w - 1 - x)) % 2 = 1
                   /\ a = x /\ b = cell_h - 1 - y
              THEN 1 ELSE 0

C3_Witness ==
  /\ pc = "index" /\ Len(glyphs) = 3
  /\ \E i \in 1..3 : glyphs[i].bbW < cell_w
  /\ \E i \in 1..3 : Len(glyphs[i].data) < cell_h
  /\ \E p \in DOMAIN sheet : sheet[p] = 1

\* C4: the index has one entry per retained glyph, and entry i is the
\* codepoint of the glyph pasted into grid cell (i mod cols, i div cols),
\* which is the i-th retained glyph; the saved font carries this index.
C4_IndexOrder ==
  (pc \in { "load", "save", "done" } \/ (pc = "error" /\ err = "OSError")) =>
    /\ Len(index) = Len(glyphs)
    /\ Len(placed) = Len(glyphs)
    /\ \A i \in 0..(Len(glyphs) - 1) :
         /\ placed[i + 1] =
              <<(i % cols) * cell_w, (i \div cols) * cell_h, index[i + 1]>>
         /\ index[i + 1] = glyphs[i + 1].codepoint[1]
    /\ pc = "done" => outFile.content[1].index = index

C4_Witness ==
  /\ pc = "done" /\ Len(index) = 3
  /\ index[1] > index[2] /\ index[2] < index[3]

\* C5: for n >= 1 glyphs, cols is the least integer whose square is >= n and
\* rows the least integer with cols * rows >= n, so cols * (rows - 1) < n;
\* the sheet measures cols * cellWidth by rows * cellHeight.
C5_Layout ==
  pc = "raster_new" =>
    /\ count = Len(glyphs) /\ count >= 1
    /\ cols * cols >= count /\ (cols - 1) * (cols - 1) < count
    /\ cols * rows >= count /\ cols * (rows - 1) < count
    /\ sheet_w = cols * cell_w /\ sheet_h = rows * cell_h

C5_Witness == pc = "raster_new" /\ count = 5 /\ cols = 3 /\ rows = 2

\* C6: cellWidth is the largest bounding-box width and cellHeight the
\* largest row count of the retained glyphs, each maximum on its own; glyphs
\* (width 3, 2 rows) and (width 2, 3 rows) give a 3x3 cell and a 6x3 sheet.
C6_CellSize ==
  /\ pc \in { "layout", "raster_new", "raster", "index", "load", "save", "done" } =>
       /\ \A i \in 1..Len(glyphs) :
            glyphs[i].bbW <= cell_w /\ Len(glyphs[i].data) <= cell_h
       /\ \E i \in 1..Len(glyphs) : glyphs[i].bbW = cell_w
       /\ \E i \in 1..Len(glyphs) : Len(glyphs[i].data) = cell_h
  /\ ( /\ pc \in { "raster_new", "raster", "index", "load", "save", "done" }
       /\ Len(glyphs) = 2
       /\ glyphs[1].bbW = 3 /\ Len(glyphs[1].data) = 2
       /\ glyphs[2].bbW = 2 /\ Len(glyphs[2].data) = 3 ) =>
       /\ cell_w = 3 /\ cell_h = 3 /\ sheet_w = 6 /\ sheet_h = 3

C6_Witness ==
  /\ pc = "raster_new" /\ Len(glyphs) = 2
  /\ glyphs[1].bbW = 3 /\ Len(glyphs[1].data) = 2
  /\ glyphs[2].bbW = 2 /\ Len(glyphs[2].data) = 3

\* C7: the stages run in the order of the script, one after the other; the
\* cell sizer is never reached with an empty glyph list; the sheet changes
\* only in the rasterization stage; once the sheet is handed to
\* load_sprite_table no pixel of it changes and the font holds its pixels.
C7_Stages ==
  << "start", "read", "filter", "check", "size", "layout", "raster_new",
     "raster", "index", "load", "save", "done" >>

C7_Pos(p) == CHOOSE i \in 1..Len(C7_Stages) : C7_Stages[i] = p

C7_Restart == pc \in { "done", "error" } /\ pc' = "start"

C7_StageOrder ==
  /\ [](pc = "size" => glyphs # <<>>)
  /\ [](pc \in { "save", "done" } => font.pixels = sheet)
  /\ [][ \/ C7_Restart
         \/ /\ (pc' # pc /\ pc' # "error") =>
                 (pc # "error" /\ C7_Pos(pc') = C7_Pos(pc) + 1)
            /\ sheet' # sheet => pc \in { "raster_new", "raster" }
            /\ pc \in { "load", "save", "done", "error" } => sheet' = sheet ]_vars

C7_Witness == pc = "done" /\ Len(glyphs) = 2 /\ Len(bdf) = 3

C9_Placement ==
  /\ [](pc \in { "raster", "index", "load", "save", "done" } =>
          /\ \A i \in 0..(Len(placed) - 1) :
               /\ placed[i + 1][1] = (i % cols) * cell_w
               /\ placed[i + 1][2] = (i \div cols) * cell_h
          /\ \A i \in 0..(Len(glyphs) - 1) :
               /\ CellRect(i) \subseteq DOMAIN sheet
               /\ \A j \in 0..(Len(glyphs) - 1) :
                    i # j => CellRect(i) \cap CellRect(j) = {}
          /\ put \subseteq (0..(cell_w - 1)) \X (0..(cell_h - 1)))
  /\ [][(pc = "raster" /\ idx' = idx + 1) =>
          \A p \in DOMAIN sheet : p \notin CellRect(idx) => sheet'[p] = sheet[p]]_vars

C9_Witness ==
  /\ pc = "raster" /\ idx = 3 /\ cols = 2 /\ rows = 2
  /\ cell_w = 3 /\ cell_h = 3

\* C10: a fetch_price call that finds an entry for its code stored less than
\* ttl seconds ago returns the cached price, does not query the backend and
\* leaves the cache as it is; any other call queries the backend, and when
\* the query fails it returns the price cached before (None if there is
\* none); a call that queried stores what it returns with the current time.
C10_FetchPrice ==
  [][now' = now =>
       LET code == call'.code
           fresh == code \in DOMAIN cache /\ now - cache[code][2] < 160
       IN  IF fresh
           THEN /\ call'.ret = cache[code][1]
                /\ ~call'.queried
                /\ cache' = cache
           ELSE /\ call'.queried
                /\ call'.failed =>
                     call'.ret = IF code \in DOMAIN cache
                                 THEN cache[code][1] ELSE <<>>
                /\ cache'[code] = <<call'.ret, now>>
                /\ \A k \in DOMAIN cache : k # code => cache'[k] = cache[k]]_vars

C10_Witness ==
  /\ call.queried /\ call.failed /\ call.ret # <<>>
  /\ now >= 160 /\ cache[call.code] = <<call.ret, now>>

====
